---- MODULE Spec2Model ----
(***************************************************************************)
(* Model of python/flatbuffers/vector.py: the vector accessors             *)
(* (VectorAccessor and its Struct / Simple / String subclasses) and the    *)
(* VectorIterator, over a flat byte buffer read through a Table.           *)
(*                                                                         *)
(* The Table (VectorLen, Vector, Get, String, Bytes), the number-type      *)
(* flags and the struct classes live outside vector.py; they are modelled  *)
(* from their documented contract.                                         *)
(***************************************************************************)
EXTENDS Integers, Sequences, FiniteSets, TLC

\* ------------------------------------------------------------------------
\* Bounds of the model
\* ------------------------------------------------------------------------

\* accessor objects constructed in one behaviour
MaxAccessors == 1

\* iterator objects allocated in one behaviour
MaxIters == 2

\* integer indexes passed to __getitem__ range over -1 .. MaxIndex
MaxIndex == 3

\* ------------------------------------------------------------------------
\* The Table collaborator and its buffers
\* ------------------------------------------------------------------------

\* Two flat buffers.  Each has four vector fields, at byte offsets 0, 4, 8
\* and 12: a vector of unsigned 32-bit scalars, a vector of strings, a
\* vector of 8-byte structs and an empty vector.  A field slot holds the
\* little-endian distance to its vector; a vector is a 32-bit length
\* followed by its elements; a string element is a slot holding the distance
\* to a string record (32-bit length, then the bytes).
\*   buffer 1: scalars [10, 20, 30], strings ["ab", "xyz"], 2 structs
\*   buffer 2: scalars [300, 5],     strings ["hi"],        1 struct
Tables ==
  << << 16, 0, 0, 0, 28, 0, 0, 0, 36, 0, 0, 0, 52, 0, 0, 0,
        3, 0, 0, 0, 10, 0, 0, 0, 20, 0, 0, 0, 30, 0, 0, 0,
        2, 0, 0, 0, 32, 0, 0, 0, 36, 0, 0, 0,
        2, 0, 0, 0, 1, 0, 0, 0, 2, 0, 0, 0, 3, 0, 0, 0, 4, 0, 0, 0,
        0, 0, 0, 0,
        2, 0, 0, 0, 97, 98, 0, 0,
        3, 0, 0, 0, 120, 121, 122, 0 >>,
     << 16, 0, 0, 0, 24, 0, 0, 0, 28, 0, 0, 0, 36, 0, 0, 0,
        2, 0, 0, 0, 44, 1, 0, 0, 5, 0, 0, 0,
        1, 0, 0, 0, 20, 0, 0, 0,
        1, 0, 0, 0, 9, 0, 0, 0, 8, 0, 0, 0,
        0, 0, 0, 0,
        2, 0, 0, 0, 104, 105, 0, 0 >> >>

\* the byte offsets of the vector fields of a table
FieldOffsets == {0, 4, 8, 12}

\* the byte at address a of table t (addresses start at 0)
Byte(t, a) == Tables[t][a + 1]

\* a run of n bytes at address a lies inside the buffer of table t
InBuffer(t, a, n) == a >= 0 /\ a + n <= Len(Tables[t])

RECURSIVE ReadLE(_, _, _)
\* the unsigned little-endian number in the n bytes at address a
ReadLE(t, a, n) ==
  IF n = 0 THEN 0 ELSE Byte(t, a) + 256 * ReadLE(t, a + 1, n - 1)

\* the address an offset slot at address a points to
Indirect(t, a) == a + ReadLE(t, a, 4)

\* Table.VectorLen(off): the element count of the vector of field off
VectorLen(t, off) == ReadLE(t, Indirect(t, off), 4)

\* Table.Vector(off): the address of element 0 of the vector of field off
Vector(t, off) == Indirect(t, off) + 4

\* values handed back to the caller, tagged with their kind
IntVal(n) == [t |-> "int", v |-> <<n>>]
TextVal(s) == [t |-> "text", v |-> s]
StructVal(cls, t, pos) == [t |-> "struct", v |-> <<cls, t, pos>>]
NoVal == [t |-> "none", v |-> <<>>]
TableError == [t |-> "tableerror", v |-> <<>>]

\* the number-type flags of the scalar kinds used here
Uint8Flags == [name |-> "Uint8Flags", bytewidth |-> 1]
Uint32Flags == [name |-> "Uint32Flags", bytewidth |-> 4]
NoFlags == [name |-> "none", bytewidth |-> 0]
FlagsSet == {Uint8Flags, Uint32Flags}

\* Table.Get(flags, off): the scalar of kind flags stored at address off;
\* a read outside the buffer is rejected by the table
TableGet(t, flags, off) ==
  IF InBuffer(t, off, flags.bytewidth)
  THEN IntVal(ReadLE(t, off, flags.bytewidth))
  ELSE TableError

\* Table.String(off): the text of the string record at address off
\* (a 32-bit length followed by that many bytes)
TableString(t, off) ==
  IF InBuffer(t, off, 4) /\ InBuffer(t, off + 4, ReadLE(t, off, 4))
  THEN TextVal([k \in 1..ReadLE(t, off, 4) |-> Byte(t, off + 4 + k - 1)])
  ELSE TableError

\* struct_class() followed by item.Init(buf, pos): a view aliasing the
\* table's bytes at pos, nothing is read or copied
StructClasses == {"Pair"}
StructInit(cls, t, pos) == StructVal(cls, t, pos)

\* ------------------------------------------------------------------------
\* Python values used as arguments
\* ------------------------------------------------------------------------

\* an index argument: its Python type and, for numbers, its value
Idx(ty, n) == [type |-> ty, val |-> n]
NoIdx == Idx("none", 0)

\* the index arguments tried: ints, the two bools (bool is a subclass of
\* int: True is 1, False is 0), the floats 0.0 and 1.0, a str and None
Indexes ==
  {Idx("int", n) : n \in -1..MaxIndex}
    \cup {Idx("bool", 0), Idx("bool", 1)}
    \cup {Idx("float", 0), Idx("float", 1)}
    \cup {Idx("str", 0), Idx("NoneType", 0)}

\* isinstance(index, int)
IsInstanceInt(index) == index.type \in {"int", "bool"}

\* the stride arguments passed by callers of the Struct and String variants
Strides == {4, 8}

\* ------------------------------------------------------------------------
\* Outcome of a call: what it returned or raised, and the Table calls made
\* ------------------------------------------------------------------------

Return(v, cs) == [kind |-> "value", value |-> v, calls |-> cs]
Raise(exc, cs) == [kind |-> exc, value |-> NoVal, calls |-> cs]

\* the outcome of a decode step that returns what the table call gave:
\* an error of the table propagates to the caller unchanged
FromTable(v, cs) ==
  IF v = TableError THEN Raise("TableError", cs) ELSE Return(v, cs)

\* ------------------------------------------------------------------------
\* VectorAccessor and its subclasses
\* ------------------------------------------------------------------------

NoAcc ==
  [cls |-> "none", _table |-> 0, _offset |-> 0, _length |-> 0, _stride |-> 0,
   _flags |-> NoFlags, _struct_class |-> "none"]

\* VectorAccessor.__init__: the four slots of the base class
BaseInit(cls, table, offset, stride, flags, struct_class) ==
  [cls |-> cls, _table |-> table, _offset |-> offset,
   _length |-> VectorLen(table, offset), _stride |-> stride,
   _flags |-> flags, _struct_class |-> struct_class]

\* VectorAccessor(table, offset, stride): the base class itself
VectorAccessorInit(table, offset, stride) ==
  [kind |-> "ok",
   obj |-> BaseInit("Base", table, offset, stride, NoFlags, "none"),
   calls |-> << <<"VectorLen", offset>> >>]

\* StructVectorAccessor(table, offset, stride, struct_class)
StructVectorAccessorInit(table, offset, stride, struct_class) ==
  [kind |-> "ok",
   obj |-> BaseInit("Struct", table, offset, stride, NoFlags, struct_class),
   calls |-> << <<"VectorLen", offset>> >>]

\* SimpleVectorAccessor(table, offset, flags): the stride is flags.bytewidth
SimpleVectorAccessorInit(table, offset, flags) ==
  [kind |-> "ok",
   obj |-> BaseInit("Simple", table, offset, flags.bytewidth, flags, "none"),
   calls |-> << <<"VectorLen", offset>> >>]

\* StringVectorAccessor(table, offset, stride): super(SimpleVectorAccessor,
\* self) is evaluated with a self that is no SimpleVectorAccessor, which
\* raises TypeError before the base __init__ runs; no slot is set and the
\* table is not consulted
StringVectorAccessorInit(table, offset, stride) ==
  [kind |-> "TypeError", obj |-> NoAcc, calls |-> <<>>]

\* StructVectorAccessor._unpack
StructUnpack(self, offset) ==
  Return(StructInit(self._struct_class, self._table, offset),
         << <<"Init", offset>> >>)

\* SimpleVectorAccessor._unpack
SimpleUnpack(self, offset) ==
  FromTable(TableGet(self._table, self._flags, offset),
            << <<"Get", offset>> >>)

\* StringVectorAccessor._unpack: the address it is given goes to
\* Table.String as it is
StringUnpack(self, offset) ==
  FromTable(TableString(self._table, offset), << <<"String", offset>> >>)

\* self._unpack(offset), dispatched on the class of self; the base class
\* has no decode step and raises NotImplementedError
Unpack(self, offset) ==
  CASE self.cls = "Struct" -> StructUnpack(self, offset)
    [] self.cls = "Simple" -> SimpleUnpack(self, offset)
    [] self.cls = "String" -> StringUnpack(self, offset)
    [] OTHER -> Raise("NotImplementedError", <<>>)

\* the range test with its upper bound off by one
OutOfRange_OffByOne(self, index) ==
  index.val < 0 \/ index.val > self._length

\* the range test of __getitem__
OutOfRange(self, index) == index.val < 0 \/ index.val >= self._length

\* the address of element index with the stride left out
ElementAddress_NoStride(self, index) ==
  Vector(self._table, self._offset) + index.val

\* the address of element index
ElementAddress(self, index) ==
  Vector(self._table, self._offset) + index.val * self._stride

\* __getitem__ with the range test made before the type test
GetItem_RangeFirst(self, index) ==
  IF OutOfRange(self, index) THEN Raise("IndexError", <<>>)
  ELSE IF ~IsInstanceInt(index) THEN Raise("TypeError", <<>>)
  ELSE LET a == ElementAddress(self, index)
           r == Unpack(self, a)
       IN [r EXCEPT !.calls = << <<"Vector", self._offset>> >> \o r.calls]

\* VectorAccessor.__getitem__
GetItem(self, index) ==
  IF ~IsInstanceInt(index) THEN Raise("TypeError", <<>>)
  ELSE IF OutOfRange(self, index) THEN Raise("IndexError", <<>>)
  ELSE LET a == ElementAddress(self, index)
           r == Unpack(self, a)
       IN [r EXCEPT !.calls = << <<"Vector", self._offset>> >> \o r.calls]

\* VectorAccessor.__len__
LenOf(self) == self._length

\* ------------------------------------------------------------------------
\* VectorIterator
\* ------------------------------------------------------------------------

\* a slot of an object that was never assigned (a slot that was assigned
\* to n is [set |-> TRUE, v |-> n])
UnsetSlot == [set |-> FALSE, v |-> 0]

\* VectorIterator.__init__: _vec and _next_index are assigned, then
\* len(vector) names a variable that does not exist and raises NameError;
\* _length is never assigned
VectorIteratorInit(vector_accessor) ==
  [kind |-> "NameError",
   obj |-> [_vec |-> vector_accessor, _next_index |-> 0,
            _length |-> UnsetSlot]]

\* VectorIterator.next: the outcome and the iterator afterwards; vec is the
\* accessor object self._vec refers to
IterNext(self, vec) ==
  IF ~self._length.set THEN [out |-> Raise("AttributeError", <<>>), obj |-> self]
  ELSE IF self._next_index >= self._length.v
       THEN [out |-> Raise("StopIteration", <<>>), obj |-> self]
  ELSE LET item == GetItem(vec, Idx("int", self._next_index))
       IN IF item.kind = "value"
          THEN [out |-> item,
                obj |-> [self EXCEPT !._next_index = self._next_index + 1]]
          ELSE [out |-> item, obj |-> self]

\* ------------------------------------------------------------------------
\* State
\* ------------------------------------------------------------------------

VARIABLES
  table,   \* the table (buffer) the program reads
  accs,    \* the accessor objects constructed so far
  iters,   \* the VectorIterator objects allocated so far
  res      \* the last call: operation, arguments and outcome

vars == <<table, accs, iters, res>>

\* the record of a call: op on accessor number a or iterator number it,
\* with index argument idx; cur is the iterator's cursor before the call,
\* and for a constructor a and cur are its offset and stride arguments
Call(op, cls, a, idx, it, cur, out) ==
  [op |-> op, cls |-> cls, a |-> a, idx |-> idx, it |-> it, cur |-> cur,
   kind |-> out.kind, value |-> out.value, calls |-> out.calls]

Init ==
  /\ table \in DOMAIN Tables
  /\ accs = <<>>
  /\ iters = <<>>
  /\ res = Call("start", "none", 0, NoIdx, 0, 0, Raise("none", <<>>))

\* what a constructor call leaves behind: the new accessor when it
\* returned, nothing when it raised
Constructed(cls, offset, stride, r) ==
  /\ accs' = IF r.kind = "ok" THEN Append(accs, r.obj) ELSE accs
  /\ res' = Call("construct", cls, offset, NoIdx, 0, stride,
                 [kind |-> r.kind, value |-> NoVal, calls |-> r.calls])
  /\ UNCHANGED <<table, iters>>

\* VectorAccessor(table, offset, stride)
ConstructBase ==
  /\ Len(accs) < MaxAccessors
  /\ \E offset \in FieldOffsets, stride \in Strides :
       Constructed("Base", offset, stride,
                   VectorAccessorInit(table, offset, stride))

\* SimpleVectorAccessor(table, offset, flags)
ConstructSimple ==
  /\ Len(accs) < MaxAccessors
  /\ \E offset \in FieldOffsets, flags \in FlagsSet :
       Constructed("Simple", offset, flags.bytewidth,
                   SimpleVectorAccessorInit(table, offset, flags))

\* StructVectorAccessor(table, offset, stride, struct_class)
ConstructStruct ==
  /\ Len(accs) < MaxAccessors
  /\ \E offset \in FieldOffsets, stride \in Strides, sc \in StructClasses :
       Constructed("Struct", offset, stride,
                   StructVectorAccessorInit(table, offset, stride, sc))

\* StringVectorAccessor(table, offset, stride)
ConstructString ==
  /\ Len(accs) < MaxAccessors
  /\ \E offset \in FieldOffsets, stride \in Strides :
       Constructed("String", offset, stride,
                   StringVectorAccessorInit(table, offset, stride))

\* len(accs[a])
LenCall ==
  \E a \in DOMAIN accs :
    /\ res' = Call("len", accs[a].cls, a, NoIdx, 0, 0,
                   Return(IntVal(LenOf(accs[a])), <<>>))
    /\ UNCHANGED <<table, accs, iters>>

\* accs[a][index]
GetItemCall ==
  \E a \in DOMAIN accs, index \in Indexes :
    /\ res' = Call("getitem", accs[a].cls, a, index, 0, 0,
                   GetItem(accs[a], index))
    /\ UNCHANGED <<table, accs, iters>>

\* iter(accs[a]): VectorAccessor.__iter__ allocates a VectorIterator and
\* runs its __init__; the object stays allocated (the traceback of the
\* NameError refers to it), __iter__ returns nothing
IterCall ==
  /\ Len(iters) < MaxIters
  /\ \E a \in DOMAIN accs :
       LET r == VectorIteratorInit(a)
       IN /\ iters' = Append(iters, r.obj)
          /\ res' = Call("iter", accs[a].cls, a, NoIdx, Len(iters) + 1, 0,
                         [kind |-> r.kind, value |-> NoVal, calls |-> <<>>])
          /\ UNCHANGED <<table, accs>>

\* it.next() on the k-th iterator object
NextCall ==
  \E k \in DOMAIN iters :
    LET r == IterNext(iters[k], accs[iters[k]._vec])
    IN /\ iters' = [iters EXCEPT ![k] = r.obj]
       /\ res' = Call("next", accs[iters[k]._vec].cls, iters[k]._vec, NoIdx,
                      k, iters[k]._next_index, r.out)
       /\ UNCHANGED <<table, accs>>

Next ==
  \/ ConstructBase
  \/ ConstructSimple
  \/ ConstructStruct
  \/ ConstructString
  \/ LenCall
  \/ GetItemCall
  \/ IterCall
  \/ NextCall

Spec == Init /\ [][Next]_vars

\* ------------------------------------------------------------------------
\* __getitem__ and _unpack as functions of the object they are applied to
\* ------------------------------------------------------------------------

\* One object of any of the three classes whose slots are those
\* VectorAccessor.__init__ assigns, and the calls that read it.
InitGetItem ==
  /\ table \in DOMAIN Tables
  /\ \E offset \in FieldOffsets :
       \/ \E flags \in FlagsSet :
            accs = << BaseInit("Simple", table, offset, flags.bytewidth,
                               flags, "none") >>
       \/ \E stride \in Strides, sc \in StructClasses :
            accs = << BaseInit("Struct", table, offset, stride, NoFlags, sc) >>
       \/ \E stride \in Strides :
            accs = << BaseInit("String", table, offset, stride, NoFlags,
                               "none") >>
  /\ iters = <<>>
  /\ res = Call("start", "none", 0, NoIdx, 0, 0, Raise("none", <<>>))

NextGetItem ==
  \/ LenCall
  \/ GetItemCall

SpecGetItem == InitGetItem /\ [][NextGetItem]_vars

\* ------------------------------------------------------------------------
\* Properties
\* ------------------------------------------------------------------------

\* C1: for an accessor of any variant with cached length L, base address B =
\* table.Vector(offset) and stride S, and an integer index i with
\* 0 <= i < L, Get(i) raises nothing, asks the table for the base address
\* once, decodes the one address B + i*S and returns what the variant's
\* decode step gives for that address; on the scalar vector [10, 20, 30]
\* of buffer 1 read as 32-bit numbers, Get(i) is 10*(i+1).
C1_GetDecodesElementAddress ==
  (/\ res.op = "getitem"
   /\ res.cls \in {"Struct", "Simple", "String"}
   /\ res.idx.type \in {"int", "bool"}
   /\ 0 <= res.idx.val
   /\ res.idx.val < accs[res.a]._length)
  => LET self == accs[res.a]
         addr == Vector(table, self._offset) + res.idx.val * self._stride
         step == CASE self.cls = "Struct" -> "Init"
                   [] self.cls = "Simple" -> "Get"
                   [] OTHER -> "String"
     IN /\ res.kind = "value"
        /\ res.value = Unpack(self, addr).value
        /\ res.calls = << <<"Vector", self._offset>>, <<step, addr>> >>
        /\ (table = 1 /\ self._offset = 0 /\ self._flags = Uint32Flags)
             => res.value = IntVal(10 * (res.idx.val + 1))

\* C1 witness: Get(2) on the 32-bit scalar vector of buffer 1 returned 30
C1_Witness ==
  /\ res.op = "getitem"
  /\ res.kind = "value"
  /\ res.idx = Idx("int", 2)
  /\ table = 1
  /\ accs[res.a]._offset = 0
  /\ accs[res.a]._stride = 4
  /\ res.value = IntVal(30)

\* C2: for an accessor with cached length L and an integer index i with
\* i < 0 or i >= L, Get(i) raises IndexError, returns no value and calls
\* neither the decode step nor table.Vector.
C2_OutOfRangeRaisesIndexError ==
  (/\ res.op = "getitem"
   /\ res.idx.type \in {"int", "bool"}
   /\ (res.idx.val < 0 \/ res.idx.val >= accs[res.a]._length))
  => /\ res.kind = "IndexError"
     /\ res.value = NoVal
     /\ res.calls = <<>>

\* C2 witness: Get(L) on a non-empty vector and Get(0) on an empty one are
\* the boundary cases; this is Get(L) with L > 0
C2_Witness ==
  /\ res.op = "getitem"
  /\ res.idx.type = "int"
  /\ accs[res.a]._length > 0
  /\ res.idx.val = accs[res.a]._length
  /\ res.kind = "IndexError"

\* C7: Get with an index that is no int raises TypeError whatever the
\* length of the accessor and whatever number the index stands for: no
\* IndexError, no value, no call to the table.
C7_NonIntegerRaisesTypeError ==
  (/\ res.op = "getitem"
   /\ res.idx.type \notin {"int", "bool"})
  => /\ res.kind = "TypeError"
     /\ res.value = NoVal
     /\ res.calls = <<>>

\* C7 witness: Get(1.0) on an empty vector, where 1 is out of range
C7_Witness ==
  /\ res.op = "getitem"
  /\ res.idx = Idx("float", 1)
  /\ accs[res.a]._length = 0
  /\ res.kind = "TypeError"

\* C3: Length() is the number of elements a fresh Iterate() yields:
\* Iterate() returns an iterator, and a Next() on it that does not return a
\* value signals end-of-sequence, after exactly Length() values.
C3_DrainYieldsLength ==
  /\ res.op = "iter" => res.kind = "ok"
  /\ (res.op = "next" /\ res.kind # "value")
       => /\ res.kind = "StopIteration"
          /\ res.cur = LenOf(accs[res.a])

\* C4: with two iterators over one accessor, a Next() on either gives what
\* that iterator gives when driven alone (Get(cursor) while
\* cursor < length, end-of-sequence after) and leaves the other untouched.
C4_IteratorsIsolated ==
  [][\A k \in DOMAIN iters :
       (/\ Len(iters) >= 2
        /\ res'.op = "next"
        /\ res'.it = k)
       => /\ \A j \in DOMAIN iters : j # k => iters'[j] = iters[j]
          /\ LET vec == accs[iters[k]._vec]
                 c == iters[k]._next_index
             IN IF c < vec._length
                THEN /\ res'.kind = "value"
                     /\ res'.value = GetItem(vec, Idx("int", c)).value
                ELSE res'.kind = "StopIteration"]_vars

\* C5: an exhausted iterator (cursor = length) stays exhausted: Next() on
\* it signals end-of-sequence, no other error and no value, and the cursor
\* stays equal to the length.
C5_ExhaustedStaysExhausted ==
  (/\ res.op = "next"
   /\ res.cur >= accs[res.a]._length)
  => /\ res.kind = "StopIteration"
     /\ iters[res.it]._next_index = accs[res.a]._length

\* C8: a fresh iterator has cursor 0, and Next() with cursor < length
\* returns source.Get(cursor) and advances the cursor by exactly 1.
C8_NextReturnsGetAndAdvances ==
  /\ res.op = "iter" => iters[res.it]._next_index = 0
  /\ (res.op = "next" /\ res.cur < accs[res.a]._length)
       => /\ res.kind = "value"
          /\ res.value = GetItem(accs[res.a], Idx("int", res.cur)).value
          /\ iters[res.it]._next_index = res.cur + 1

\* C9: every iterator has 0 <= cursor <= length, with length the length of
\* its source accessor fixed at construction; a Next() never leaves the
\* cursor below where it was; and a new iterator is exhausted
\* (cursor = length) exactly when the length is 0.
C9_CursorWithinLength ==
  /\ \A k \in DOMAIN iters :
       /\ iters[k]._length.set
       /\ iters[k]._length.v = accs[iters[k]._vec]._length
       /\ 0 <= iters[k]._next_index
       /\ iters[k]._next_index <= iters[k]._length.v
  /\ res.op = "next" => iters[res.it]._next_index >= res.cur
  /\ res.op = "iter"
       => ((iters[res.it]._next_index = iters[res.it]._length.v)
             <=> (accs[res.a]._length = 0))

\* C6: constructing a string accessor with (table, offset, stride) over a
\* vector field succeeds: it reads the length once with
\* table.VectorLen(offset) and the new accessor has that length and the
\* caller's stride.
C6_StringConstructSucceeds ==
  (res.op = "construct" /\ res.cls = "String")
  => /\ res.kind = "ok"
     /\ res.calls = << <<"VectorLen", res.a>> >>
     /\ Len(accs) >= 1
     /\ accs[Len(accs)].cls = "String"
     /\ accs[Len(accs)]._length = VectorLen(table, res.a)
     /\ accs[Len(accs)]._stride = res.cur

====
